---- MODULE Spec2Model ----
(***************************************************************************)
(* Concurrent musical chairs (src/main.cpp): NUM_JOGADORES Jogador threads *)
(* running joga() and one Coordenador thread running iniciar_jogo(), over  *)
(* the shared Active Set (jogadores_ativos), Seated Set                    *)
(* (cadeiras_ocupadas), Resource Gate (cadeira_sem) and the two flags      *)
(* musica_parada and jogo_ativo.                                           *)
(*                                                                         *)
(* The threads are preemptively scheduled, so every step between two       *)
(* synchronisation points is one action and all interleavings are          *)
(* explored; the timed sleeps of the Coordenador give no ordering.         *)
(***************************************************************************)
EXTENDS Integers, Sequences, FiniteSets, Bags

\* The number of Jogador threads.  The program is built with 4 (line 13); the
\* model runs the same program built with 3.
NUM_JOGADORES == 3

\* Largest number of rounds the Coordenador is allowed to start.
MaxRodadas == 2

Jogadores == 1..NUM_JOGADORES

\* eliminado_id before any unseated participant is found (line 211).
SEM_ELIMINADO == -1

\* No winner has been announced.
SEM_VENCEDOR == 0

VARIABLES
    jogadores_ativos,    \* std::vector<int>: the Active Set
    cadeiras_ocupadas,   \* std::vector<pair<int,int>>: the Seated Set, as the bag of the
                         \* ids it holds (its order is read only by the printout)
    cadeira_sem,         \* the object cadeira_sem points to: [vivo, n]
    musica_parada,       \* std::atomic<bool>
    jogo_ativo,          \* std::atomic<bool>
    cadeiras,            \* JogoDasCadeiras::cadeiras
    eliminado,           \* Jogador::eliminado, one per player
    pc,                  \* position of each Jogador thread in joga()
    pcC,                 \* position of the Coordenador thread in iniciar_jogo()
    jogadores_sentados,  \* local of liberar_threads_eliminadas
    eliminado_id,        \* local of liberar_threads_eliminadas, as last shown
    vencedor,            \* id printed as winner, SEM_VENCEDOR if none
    rodadas,             \* iterations of the loop of iniciar_jogo started so far
    obs,                 \* value of musica_parada each player last saw in a wait
    ativos_na_parada,    \* ids that were in the Active Set at the last stop signal
    tentou               \* players that called try_acquire since the last stop signal

vars == <<jogadores_ativos, cadeiras_ocupadas, cadeira_sem, musica_parada,
          jogo_ativo, cadeiras, eliminado, pc, pcC, jogadores_sentados,
          eliminado_id, vencedor, rodadas, obs, ativos_na_parada, tentou>>

\* ---------------------------------------------------------------- helpers

Range(s) == {s[i] : i \in 1..Len(s)}

\* std::remove + erase: drops every element equal to id, keeps the order.
RECURSIVE Remove(_, _)
Remove(s, id) ==
    IF s = <<>> THEN <<>>
    ELSE IF Head(s) = id THEN Remove(Tail(s), id)
         ELSE <<Head(s)>> \o Remove(Tail(s), id)

\* JogoDasCadeiras::eliminar_jogador
eliminar_jogador(ativos, id) == Remove(ativos, id)

\* cadeiras_ocupadas.emplace_back(id, id)
emplace_back(ocupadas, id) == ocupadas (+) SetToBag({id})

\* new std::counting_semaphore<NUM_JOGADORES>(desired)
NovoSemaforo(desired) == [vivo |-> TRUE, n |-> desired]

\* Results try_acquire() can return on the object.  On a deleted object, or
\* one built with a negative count, the call is undefined: either result.
TryAcquireResults(sem) ==
    IF sem.vivo /\ sem.n >= 0 THEN {sem.n > 0} ELSE BOOLEAN

\* The object after a try_acquire() that returned ok.
AfterTryAcquire(sem, ok) ==
    IF ok /\ sem.vivo /\ sem.n > 0 THEN [sem EXCEPT !.n = @ - 1] ELSE sem

\* delete cadeira_sem: the object is gone and its count with it.
Delete(sem) == [vivo |-> FALSE, n |-> 0]

\* release(update).  The call requires update <= max() - counter; the library
\* does not test it and adds to the counter all the same.
Release(sem, update) == [sem EXCEPT !.n = @ + update]

\* Where a thread blocked on music_cv continues once it is unblocked: it reads
\* the predicate of its wait again.
Acordado(pos) ==
    IF pos = "sleep_stop" THEN "wait_stop"
    ELSE IF pos = "sleep_resume" THEN "wait_resume"
    ELSE pos

\* music_cv.notify_all(): every thread blocked on music_cv is unblocked.
NotifyAll(pcs) == [p \in DOMAIN pcs |-> Acordado(pcs[p])]

\* The phase a reader of musica_parada sees.
Fase(parada) == IF parada THEN "parada" ELSE "tocando"

\* First id of the Active Set that is absent from sentados, or -1 (lines 211-218).
RECURSIVE NaoSentado(_, _)
NaoSentado(ativos, sentados) ==
    IF ativos = <<>> THEN SEM_ELIMINADO
    ELSE IF ~BagIn(Head(ativos), sentados) THEN Head(ativos)
         ELSE NaoSentado(Tail(ativos), sentados)

\* ---------------------------------------------------------------- initial state

\* JogoDasCadeiras(NUM_JOGADORES), the globals' initialisers and main() up to
\* the start of the threads.
Init ==
    /\ jogadores_ativos = [i \in 1..NUM_JOGADORES |-> i]
    /\ cadeiras_ocupadas = EmptyBag
    /\ cadeira_sem = NovoSemaforo(NUM_JOGADORES - 1)
    /\ musica_parada = FALSE
    /\ jogo_ativo = TRUE
    /\ cadeiras = NUM_JOGADORES - 1
    /\ eliminado = [p \in Jogadores |-> FALSE]
    /\ pc = [p \in Jogadores |-> "loop"]
    /\ pcC = "loop"
    /\ jogadores_sentados = EmptyBag
    /\ eliminado_id = SEM_ELIMINADO
    /\ vencedor = SEM_VENCEDOR
    /\ rodadas = 0
    /\ obs = [p \in Jogadores |-> "nada"]
    /\ ativos_na_parada = Jogadores
    /\ tentou = {}

\* ---------------------------------------------------------------- Jogador::joga

coordVars == <<pcC, jogadores_sentados, eliminado_id, vencedor, rodadas, cadeiras>>

\* while (jogo_ativo)                                            (line 141)
joga_loop(p) ==
    /\ pc[p] = "loop"
    /\ pc' = [pc EXCEPT ![p] = IF jogo_ativo THEN "wait_stop" ELSE "done"]
    /\ UNCHANGED <<jogadores_ativos, cadeiras_ocupadas, cadeira_sem, musica_parada,
                   jogo_ativo, eliminado, obs, ativos_na_parada, tentou>>
    /\ UNCHANGED coordVars

\* joga_wait_stop with a wait that returns whatever the predicate says
\* (music_cv.wait(lock) without the lambda, on a wake-up).
joga_wait_stop_sem_predicado(p) ==
    /\ pc[p] = "wait_stop"
    /\ pc' = [pc EXCEPT ![p] = "check"]
    /\ obs' = [obs EXCEPT ![p] = Fase(musica_parada)]
    /\ UNCHANGED <<jogadores_ativos, cadeiras_ocupadas, cadeira_sem, musica_parada,
                   jogo_ativo, eliminado, ativos_na_parada, tentou>>
    /\ UNCHANGED <<pcC, jogadores_sentados, eliminado_id, vencedor, rodadas, cadeiras>>

\* music_cv.wait(lock, musica_parada): the predicate is read under
\* music_mutex; if it is false the thread blocks on music_cv (lines 143-145)
joga_wait_stop(p) ==
    /\ pc[p] = "wait_stop"
    /\ IF musica_parada
       THEN /\ pc' = [pc EXCEPT ![p] = "check"]
            /\ obs' = [obs EXCEPT ![p] = Fase(musica_parada)]
       ELSE /\ pc' = [pc EXCEPT ![p] = "sleep_stop"]
            /\ UNCHANGED obs
    /\ UNCHANGED <<jogadores_ativos, cadeiras_ocupadas, cadeira_sem, musica_parada,
                   jogo_ativo, eliminado, ativos_na_parada, tentou>>
    /\ UNCHANGED coordVars

\* if (!jogo_ativo) break;                                       (line 147)
joga_check(p) ==
    /\ pc[p] = "check"
    /\ pc' = [pc EXCEPT ![p] = IF jogo_ativo THEN "try" ELSE "done"]
    /\ UNCHANGED <<jogadores_ativos, cadeiras_ocupadas, cadeira_sem, musica_parada,
                   jogo_ativo, eliminado, obs, ativos_na_parada, tentou>>
    /\ UNCHANGED coordVars

\* tentar_ocupar_cadeira: cadeira_sem->try_acquire()             (lines 126, 130)
tentar_ocupar_cadeira(p) ==
    /\ pc[p] = "try"
    /\ \E ok \in TryAcquireResults(cadeira_sem) :
          /\ cadeira_sem' = AfterTryAcquire(cadeira_sem, ok)
          /\ IF ok
             THEN /\ pc' = [pc EXCEPT ![p] = "seat"]
                  /\ UNCHANGED eliminado
             ELSE /\ pc' = [pc EXCEPT ![p] = "verify"]
                  /\ eliminado' = [eliminado EXCEPT ![p] = TRUE]
    /\ tentou' = tentou \cup {p}
    /\ UNCHANGED <<jogadores_ativos, cadeiras_ocupadas, musica_parada,
                   jogo_ativo, obs, ativos_na_parada>>
    /\ UNCHANGED coordVars

\* tentar_ocupar_cadeira: cadeiras_ocupadas.emplace_back(id, id) (lines 127-128)
ocupar_cadeira(p) ==
    /\ pc[p] = "seat"
    /\ cadeiras_ocupadas' = emplace_back(cadeiras_ocupadas, p)
    /\ pc' = [pc EXCEPT ![p] = "verify"]
    /\ UNCHANGED <<jogadores_ativos, cadeira_sem, musica_parada,
                   jogo_ativo, eliminado, obs, ativos_na_parada, tentou>>
    /\ UNCHANGED coordVars

\* verificar_eliminacao                                          (lines 134-138)
verificar_eliminacao(p) ==
    /\ pc[p] = "verify"
    /\ jogadores_ativos' = IF eliminado[p] THEN eliminar_jogador(jogadores_ativos, p)
                           ELSE jogadores_ativos
    /\ pc' = [pc EXCEPT ![p] = "wait_resume"]
    /\ UNCHANGED <<cadeiras_ocupadas, cadeira_sem, musica_parada,
                   jogo_ativo, eliminado, obs, ativos_na_parada, tentou>>
    /\ UNCHANGED coordVars

\* music_cv.wait(lock, !musica_parada)                           (lines 152-155)
joga_wait_resume(p) ==
    /\ pc[p] = "wait_resume"
    /\ IF ~musica_parada
       THEN /\ pc' = [pc EXCEPT ![p] = "loop"]
            /\ obs' = [obs EXCEPT ![p] = Fase(musica_parada)]
       ELSE /\ pc' = [pc EXCEPT ![p] = "sleep_resume"]
            /\ UNCHANGED obs
    /\ UNCHANGED <<jogadores_ativos, cadeiras_ocupadas, cadeira_sem, musica_parada,
                   jogo_ativo, eliminado, ativos_na_parada, tentou>>
    /\ UNCHANGED coordVars

\* A thread blocked in music_cv.wait(lock) unblocks without a notification
\* (the standard allows it) and goes back to read the predicate.
despertar_espurio(p) ==
    /\ pc[p] \in {"sleep_stop", "sleep_resume"}
    /\ pc' = [pc EXCEPT ![p] = Acordado(@)]
    /\ UNCHANGED <<jogadores_ativos, cadeiras_ocupadas, cadeira_sem, musica_parada,
                   jogo_ativo, eliminado, obs, ativos_na_parada, tentou>>
    /\ UNCHANGED coordVars

Jogador(p) ==
    \/ joga_loop(p)
    \/ joga_wait_stop(p)
    \/ joga_check(p)
    \/ tentar_ocupar_cadeira(p)
    \/ ocupar_cadeira(p)
    \/ verificar_eliminacao(p)
    \/ joga_wait_resume(p)
    \/ despertar_espurio(p)

\* ---------------------------------------------------------------- Coordenador::iniciar_jogo

playerVars == <<eliminado, pc, obs>>

\* while (jogo.get_jogadores_ativos().size() > 1)                (line 171)
iniciar_jogo_loop ==
    /\ pcC = "loop"
    /\ IF Len(jogadores_ativos) > 1
       THEN /\ rodadas < MaxRodadas
            /\ rodadas' = rodadas + 1
            /\ pcC' = "iniciar_rodada"
       ELSE /\ pcC' = "fim"
            /\ UNCHANGED rodadas
    /\ UNCHANGED <<jogadores_ativos, cadeiras_ocupadas, cadeira_sem, musica_parada,
                   jogo_ativo, cadeiras, jogadores_sentados, eliminado_id, vencedor, tentou, ativos_na_parada>>
    /\ UNCHANGED playerVars

\* iniciar_rodada: cadeiras = jogadores_ativos.size() - 1        (lines 61-64)
iniciar_rodada_cadeiras ==
    /\ pcC = "iniciar_rodada"
    /\ cadeiras' = Len(jogadores_ativos) - 1
    /\ pcC' = "limpar"
    /\ UNCHANGED <<jogadores_ativos, cadeiras_ocupadas, cadeira_sem, musica_parada,
                   jogo_ativo, jogadores_sentados, eliminado_id, vencedor, rodadas, tentou, ativos_na_parada>>
    /\ UNCHANGED playerVars

\* iniciar_rodada: cadeiras_ocupadas.clear()                     (lines 66-69)
iniciar_rodada_limpar ==
    /\ pcC = "limpar"
    /\ cadeiras_ocupadas' = EmptyBag
    /\ pcC' = "parar_musica"
    /\ UNCHANGED <<jogadores_ativos, cadeira_sem, musica_parada, jogo_ativo, cadeiras,
                   jogadores_sentados, eliminado_id, vencedor, rodadas, tentou, ativos_na_parada>>
    /\ UNCHANGED playerVars

\* parar_musica                                                  (lines 80-91)
parar_musica ==
    /\ pcC = "parar_musica"
    /\ musica_parada' = TRUE
    /\ pc' = NotifyAll(pc)
    /\ tentou' = {}
    /\ ativos_na_parada' = Range(jogadores_ativos)
    /\ pcC' = "sentados"
    /\ UNCHANGED <<jogadores_ativos, cadeiras_ocupadas, cadeira_sem, jogo_ativo, cadeiras,
                   jogadores_sentados, eliminado_id, vencedor, rodadas>>
    /\ UNCHANGED <<eliminado, obs>>

\* liberar_threads_eliminadas: copy of the Seated Set            (lines 203-211)
liberar_sentados ==
    /\ pcC = "sentados"
    /\ jogadores_sentados' = cadeiras_ocupadas
    /\ eliminado_id' = SEM_ELIMINADO
    /\ pcC' = "procurar"
    /\ UNCHANGED <<jogadores_ativos, cadeiras_ocupadas, cadeira_sem, musica_parada,
                   jogo_ativo, cadeiras, vencedor, rodadas, tentou, ativos_na_parada>>
    /\ UNCHANGED playerVars

\* liberar_threads_eliminadas: search of the unseated id         (lines 212-214)
liberar_procurar ==
    /\ pcC = "procurar"
    /\ eliminado_id' = NaoSentado(jogadores_ativos, jogadores_sentados)
    /\ pcC' = "eliminar"
    /\ UNCHANGED <<jogadores_ativos, cadeiras_ocupadas, cadeira_sem, musica_parada,
                   jogo_ativo, cadeiras, jogadores_sentados, vencedor, rodadas, tentou, ativos_na_parada>>
    /\ UNCHANGED playerVars

\* liberar_threads_eliminadas: jogo.eliminar_jogador(id); break  (lines 215-216)
liberar_eliminar ==
    /\ pcC = "eliminar"
    /\ jogadores_ativos' = IF eliminado_id # SEM_ELIMINADO
                           THEN eliminar_jogador(jogadores_ativos, eliminado_id)
                           ELSE jogadores_ativos
    /\ pcC' = "release"
    /\ UNCHANGED <<cadeiras_ocupadas, cadeira_sem, musica_parada, jogo_ativo, cadeiras,
                   jogadores_sentados, eliminado_id, vencedor, rodadas, tentou, ativos_na_parada>>
    /\ UNCHANGED playerVars

\* exibir_resultado_rodada(eliminado_id); cadeira_sem->release(NUM_JOGADORES);
\* the locals end with the call                                 (lines 220-222)
liberar_release ==
    /\ pcC = "release"
    /\ cadeira_sem' = Release(cadeira_sem, NUM_JOGADORES)
    /\ jogadores_sentados' = EmptyBag
    /\ eliminado_id' = SEM_ELIMINADO
    /\ pcC' = "retomar"
    /\ UNCHANGED <<jogadores_ativos, cadeiras_ocupadas, musica_parada, jogo_ativo, cadeiras,
                   vencedor, rodadas, tentou, ativos_na_parada>>
    /\ UNCHANGED playerVars

\* musica_parada = false, under music_mutex; music_cv is not notified
\*                                                               (lines 178-181)
retomar_musica ==
    /\ pcC = "retomar"
    /\ musica_parada' = FALSE
    /\ pcC' = "delete"
    /\ UNCHANGED <<jogadores_ativos, cadeiras_ocupadas, cadeira_sem, jogo_ativo, cadeiras,
                   jogadores_sentados, eliminado_id, vencedor, rodadas, tentou, ativos_na_parada>>
    /\ UNCHANGED playerVars

\* delete cadeira_sem                                            (line 183)
delete_sem ==
    /\ pcC = "delete"
    /\ cadeira_sem' = Delete(cadeira_sem)
    /\ pcC' = "new"
    /\ UNCHANGED <<jogadores_ativos, cadeiras_ocupadas, musica_parada, jogo_ativo, cadeiras,
                   jogadores_sentados, eliminado_id, vencedor, rodadas, tentou, ativos_na_parada>>
    /\ UNCHANGED playerVars

\* cadeira_sem = new counting_semaphore(size() - 1)              (line 184)
new_sem ==
    /\ pcC = "new"
    /\ cadeira_sem' = NovoSemaforo(Len(jogadores_ativos) - 1)
    /\ pcC' = "loop"
    /\ UNCHANGED <<jogadores_ativos, cadeiras_ocupadas, musica_parada, jogo_ativo, cadeiras,
                   jogadores_sentados, eliminado_id, vencedor, rodadas, tentou, ativos_na_parada>>
    /\ UNCHANGED playerVars

\* jogo_ativo = false; music_cv.notify_all()                     (lines 188-189)
fim_de_jogo ==
    /\ pcC = "fim"
    /\ jogo_ativo' = FALSE
    /\ pc' = NotifyAll(pc)
    /\ pcC' = "vencedor"
    /\ UNCHANGED <<jogadores_ativos, cadeiras_ocupadas, cadeira_sem, musica_parada, cadeiras,
                   jogadores_sentados, eliminado_id, vencedor, rodadas, tentou, ativos_na_parada>>
    /\ UNCHANGED <<eliminado, obs>>

\* announcement of the winner                                    (lines 191-197)
anunciar_vencedor ==
    /\ pcC = "vencedor"
    /\ vencedor' = IF jogadores_ativos # <<>> THEN jogadores_ativos[1] ELSE SEM_VENCEDOR
    /\ pcC' = "delete_final"
    /\ UNCHANGED <<jogadores_ativos, cadeiras_ocupadas, cadeira_sem, musica_parada, jogo_ativo,
                   cadeiras, jogadores_sentados, eliminado_id, rodadas, tentou, ativos_na_parada>>
    /\ UNCHANGED playerVars

\* delete cadeira_sem                                            (line 199)
delete_final ==
    /\ pcC = "delete_final"
    /\ cadeira_sem' = Delete(cadeira_sem)
    /\ pcC' = "done"
    /\ UNCHANGED <<jogadores_ativos, cadeiras_ocupadas, musica_parada, jogo_ativo, cadeiras,
                   jogadores_sentados, eliminado_id, vencedor, rodadas, tentou, ativos_na_parada>>
    /\ UNCHANGED playerVars

Coordenador ==
    \/ iniciar_jogo_loop
    \/ iniciar_rodada_cadeiras
    \/ iniciar_rodada_limpar
    \/ parar_musica
    \/ liberar_sentados
    \/ liberar_procurar
    \/ liberar_eliminar
    \/ liberar_release
    \/ retomar_musica
    \/ delete_sem
    \/ new_sem
    \/ fim_de_jogo
    \/ anunciar_vencedor
    \/ delete_final

Next == Coordenador \/ \E p \in Jogadores : Jogador(p)

Spec == Init /\ [][Next]_vars

\* The executions in which every try_acquire() acts on a live semaphore built
\* with a count >= 0, so that its result is the one the counter gives, and in
\* which no wait on music_cv unblocks spuriously.
GateUsable(sem) == sem.vivo /\ sem.n >= 0

tentar_ocupar_cadeira_valida(p) ==
    /\ GateUsable(cadeira_sem)
    /\ tentar_ocupar_cadeira(p)

JogadorValido(p) ==
    \/ joga_loop(p)
    \/ joga_wait_stop(p)
    \/ joga_check(p)
    \/ tentar_ocupar_cadeira_valida(p)
    \/ ocupar_cadeira(p)
    \/ verificar_eliminacao(p)
    \/ joga_wait_resume(p)

NextValido == Coordenador \/ \E p \in Jogadores : JogadorValido(p)

SpecValido == Init /\ [][NextValido]_vars

\* ---------------------------------------------------------------- steps the properties speak of

\* Player p calls cadeira_sem->try_acquire() in this step.
TryAcquireStep(p) == pc[p] = "try" /\ pc'[p] # "try"

\* Player p appends its id to cadeiras_ocupadas in this step.
EmplaceStep(p) == pc[p] = "seat" /\ pc'[p] # "seat"

\* The Coordenador evaluates the loop condition after at least one round.
NextRoundOrGameOverStep == pcC = "loop" /\ pcC' # "loop" /\ rodadas > 0

\* The Coordenador enters liberar_threads_eliminadas and reads the Seated Set.
ResolveStep == pcC = "sentados" /\ pcC' = "procurar"

\* Active participants that hold no chair.
Unseated == {p \in Range(jogadores_ativos) : ~BagIn(p, cadeiras_ocupadas)}

\* ---------------------------------------------------------------- properties

\* C1: in every round exactly one participant is removed from the Active Set:
\* when the Coordenador comes back to the loop condition (to start the next
\* round or to end the game) the Active Set is one smaller than it was at
\* iniciar_rodada, where cadeiras was set to its size minus one.
C1_ExactlyOneRemovedPerRound ==
    [][NextRoundOrGameOverStep => Len(jogadores_ativos) = cadeiras]_vars

\* C2: the game ends after exactly NUM_JOGADORES - 1 rounds with exactly one
\* participant left in the Active Set, and that participant is announced as
\* the winner.
C2_EndsAfterNMinus1Rounds ==
    [][(pcC = "vencedor" /\ pcC' # "vencedor") =>
          /\ rodadas = NUM_JOGADORES - 1
          /\ Len(jogadores_ativos) = 1
          /\ vencedor' = jogadores_ativos[1]]_vars

\* C3: once the Coordenador has set jogo_ativo to false and broadcast on
\* music_cv, no Player is blocked on music_cv.  (After that broadcast nothing
\* writes musica_parada or notifies music_cv any more, so a Player that blocks
\* then never returns from joga(): a spurious wake-up only makes it read the
\* same predicate again.)
C3_NoPlayerBlockedAfterGameOver ==
    ~jogo_ativo => \A p \in Jogadores : pc[p] \notin {"sleep_stop", "sleep_resume"}

\* C4: when the Coordenador enters liberar_threads_eliminadas, the Seated Set
\* holds exactly cadeiras entries (the capacity of the round, the number of
\* active participants at round start minus one) and exactly one active
\* participant is unseated.
C4_SeatedEqualsCapacityAtResolve ==
    [][ResolveStep =>
          /\ BagCardinality(cadeiras_ocupadas) = cadeiras
          /\ Cardinality(Unseated) = 1]_vars

\* C5: in every reachable state the Seated Set holds at most cadeiras entries
\* and at most size(Active Set) - 1 entries.
C5_SeatedWithinCapacity ==
    /\ BagCardinality(cadeiras_ocupadas) <= cadeiras
    /\ BagCardinality(cadeiras_ocupadas) <= Len(jogadores_ativos) - 1

\* C6: whenever a Player appends its id to cadeiras_ocupadas, that id is a
\* member of jogadores_ativos.
C6_SeatedOnlyIfActive ==
    [][\A p \in Jogadores : EmplaceStep(p) => p \in Range(jogadores_ativos)]_vars

\* C7: between two consecutive stop signals a Player calls try_acquire at most
\* once, and no id appears more than once in the Seated Set the Coordenador
\* reads when it resolves a round.
C7_OneClaimPerRound ==
    [][/\ \A p \in Jogadores : TryAcquireStep(p) => p \notin tentou
       /\ ResolveStep => \A p \in Jogadores : CopiesIn(p, cadeiras_ocupadas) <= 1]_vars

\* C8: a Player calls tentar_ocupar_cadeira only after it has seen
\* musica_parada == true in its wait, for a stop signal it has not used for an
\* earlier call; and a Player enters the wait for stop again only after it has
\* seen musica_parada == false in its wait for resume.
C8_PhaseBarrierOrdersPlayer ==
    [][\A p \in Jogadores :
          /\ TryAcquireStep(p) => obs[p] = "parada" /\ p \notin tentou
          /\ (pc[p] # "wait_stop" /\ pc'[p] = "wait_stop") =>
                 obs[p] # "parada"]_vars

\* C8 witness: in the second round a Player that saw the resume of the first
\* round and then the second stop is about to claim, while another one that saw
\* the resume is back in the wait for stop.
C8_Witness ==
    /\ rodadas = 2
    /\ \E p, q \in Jogadores :
          /\ pc[p] = "try" /\ obs[p] = "parada" /\ p \notin tentou
          /\ pc[q] = "wait_stop" /\ obs[q] = "tocando"

\* C9: no step of a Player thread changes jogadores_ativos.
C9_OnlyCoordinatorMutatesActiveSet ==
    [][(\E p \in Jogadores : pc'[p] # pc[p]) =>
          jogadores_ativos' = jogadores_ativos]_vars

\* C10: a Player whose claim has failed (eliminado), or whose id was already
\* out of the Active Set when the last stop was signalled, never calls
\* try_acquire again.
C10_EliminatedStopsClaiming ==
    [][\A p \in Jogadores :
          TryAcquireStep(p) => ~eliminado[p] /\ p \in ativos_na_parada]_vars

\* Player p runs verificar_eliminacao in this step.
VerificarStep(p) == pc[p] = "verify" /\ pc'[p] # "verify"

\* The Coordenador reaches jogo.eliminar_jogador(id); break in this step.
EliminarStep == pcC = "eliminar" /\ pcC' # "eliminar"

\* C11: the Active Set only shrinks (an id once removed is never a member
\* again), and eliminar_jogador is never applied, by verificar_eliminacao or
\* by the Coordenador, to an id that is already out of the Active Set.
C11_NoSecondElimination ==
    [][/\ Range(jogadores_ativos') \subseteq Range(jogadores_ativos)
       /\ \A p \in Jogadores :
             (VerificarStep(p) /\ eliminado[p]) => p \in Range(jogadores_ativos)
       /\ (EliminarStep /\ eliminado_id # SEM_ELIMINADO) =>
             eliminado_id \in Range(jogadores_ativos)]_vars

\* The Coordenador sets musica_parada to false in this step.
ResumeStep == pcC = "retomar" /\ pcC' # "retomar"

\* The Coordenador signals stop in this step.
StopStep == pcC = "parar_musica" /\ pcC' # "parar_musica"

\* C12: the resume wakes every Player blocked in the wait for resume, and none
\* of them is still blocked there when the Coordenador signals the next stop.
C12_ResumeWakesAllWaiters ==
    [][\A p \in Jogadores :
          /\ (ResumeStep /\ pc[p] = "sleep_resume") => pc'[p] = "wait_resume"
          /\ StopStep => pc[p] # "sleep_resume"]_vars

\* C13: when the Coordenador signals stop, the Resource Gate is live and holds
\* exactly size(Active Set) - 1 available claims.
C13_GateHoldsCapacityAtStop ==
    [][StopStep =>
          /\ cadeira_sem.vivo
          /\ cadeira_sem.n = Len(jogadores_ativos) - 1]_vars

\* The Coordenador builds a new semaphore in this step.
NewGateStep == pcC = "new" /\ pcC' # "new"

\* C14: the Active Set is never empty, every semaphore is built with a count
\* >= 0, and no new semaphore is built once a single participant is left.
C14_ActiveSetNeverEmpty ==
    [][/\ Len(jogadores_ativos) >= 1
       /\ NewGateStep =>
             /\ Len(jogadores_ativos) - 1 >= 0
             /\ Len(jogadores_ativos) # 1]_vars

\* The Coordenador announces the result of the game in this step.
AnunciarStep == pcC = "vencedor" /\ pcC' # "vencedor"

\* C15: when the winner is announced after a final round with one chair, one
\* participant is left in the Active Set, that participant holds the chair of
\* the final round and is the announced winner.
C15_WinnerClaimedFinalChair ==
    [][(AnunciarStep /\ cadeiras = 1) =>
          /\ Len(jogadores_ativos) = 1
          /\ BagToSet(cadeiras_ocupadas) = {jogadores_ativos[1]}
          /\ BagCardinality(cadeiras_ocupadas) = 1
          /\ vencedor' = jogadores_ativos[1]]_vars

\* The Coordenador shows the result of the round and opens the gate in this step.
ExibirStep == pcC = "release" /\ pcC' # "release"

\* C16: the eliminated id shown in a round's result is not the sentinel and is
\* the id that left the Active Set in that round.
C16_EliminationReported ==
    [][ExibirStep =>
          /\ eliminado_id # SEM_ELIMINADO
          /\ ativos_na_parada \ Range(jogadores_ativos) = {eliminado_id}]_vars

\* C17: when the Coordenador reads the Seated Set, every Player still in the
\* game has completed its tentar_ocupar_cadeira call of the round, its write to
\* the Seated Set included.
C17_AllClaimedBeforeResolve ==
    [][ResolveStep =>
          \A p \in Range(jogadores_ativos) :
              /\ p \in tentou
              /\ pc[p] # "seat"]_vars

\* The Coordenador's next step reads jogadores_ativos through
\* get_jogadores_ativos(), a reference handed out without jogadores_mutex:
\* the loop test, the scan of liberar_threads_eliminadas, the size for the new
\* semaphore, the winner.                          (lines 113, 171, 212, 184, 191-194)
LeAtivosSemMutex == pcC \in {"loop", "procurar", "new", "vencedor"}

\* Player p's next step is the erase of eliminar_jogador, under jogadores_mutex.
ApagaAtivos(p) == pc[p] = "verify" /\ eliminado[p]

\* The Coordenador's next step is exibir_resultado_rodada, which walks
\* cadeiras_ocupadas holding cout_mutex only.                    (lines 101-105)
LeSentadosSemMutex == pcC = "release"

\* Player p's next step is the emplace_back under cadeira_mutex.
EscreveSentados(p) == pc[p] = "seat"

\* C18: no read of the Active Set or of the Seated Set made without the
\* set's mutex is concurrent with a write of that set by another thread.
C18_NoUnlockedReadOverlapsWrite ==
    /\ ~(LeAtivosSemMutex /\ \E p \in Jogadores : ApagaAtivos(p))
    /\ ~(LeSentadosSemMutex /\ \E p \in Jogadores : EscreveSentados(p))

\* C19: every try_acquire of a Player is made on a live semaphore, never
\* between a delete and the following new nor after the final delete.
C19_GateLiveAtEveryClaim ==
    [][\A p \in Jogadores : TryAcquireStep(p) => cadeira_sem.vivo]_vars

\* C20: the counter of the semaphore never exceeds NUM_JOGADORES, and it is 0
\* when the Coordenador calls release(NUM_JOGADORES) at the end of a round.
C20_CounterWithinMaximum ==
    /\ cadeira_sem.n <= NUM_JOGADORES
    /\ pcC = "release" => cadeira_sem.n = 0

====
